---- MODULE Spec2Model ----
(***************************************************************************)
(* clyo.cli.CommandLineInterface: construction of the command tables and   *)
(* the interactive loop run(), which reads one line per iteration and      *)
(* dispatches it to the stop branch, the event branch or the property      *)
(* scan.                                                                   *)
(*                                                                         *)
(* Text is a sequence of one-character strings, so that the slices         *)
(* command[:n] and command[n:] of the source are computed, not assumed.    *)
(* A managed object is known by its position in the objects dict (Python   *)
(* dicts keep insertion order and have unique keys).  An attribute of an   *)
(* object is <<>> when the object has no such attribute (reading it raises *)
(* AttributeError) and <<v>> when it holds the integer v.                  *)
(***************************************************************************)
EXTENDS Integers, Sequences, FiniteSets, TLC

VARIABLES objects, properties, events, sig, attrs,
          stop_event, stop_commands, event_commands, property_commands,
          pc, command, out, hookLog, hostAt

vars == <<objects, properties, events, sig, attrs,
          stop_event, stop_commands, event_commands, property_commands,
          pc, command, out, hookLog, hostAt>>

(* ------------------------------ bounds --------------------------------- *)

\* longest digit string offered as a value text
MaxDigits == 1
\* most stray characters put between a specific command and its space
MaxJunk == 1

(* ------------------------------- text ---------------------------------- *)

Range(s) == {s[i] : i \in 1..Len(s)}

Min(a, b) == IF a < b THEN a ELSE b

\* Python's s[:n] for n >= 0: the first n characters, all of s when it is shorter
Prefix(s, n) == SubSeq(s, 1, Min(n, Len(s)))

\* Python's s[n:] for n >= 0: what follows the first n characters, '' when none
Suffix(s, n) == SubSeq(s, n + 1, Len(s))

SP == <<" ">>
HY == <<"-">>

DigitChars == {"2", "5", "9"}

DigitVal(c) == CASE c = "2" -> 2 [] c = "5" -> 5 [] c = "9" -> 9

RECURSIVE StripLeft(_)
StripLeft(s) == IF s # <<>> /\ Head(s) = " " THEN StripLeft(Tail(s)) ELSE s

RECURSIVE StripRight(_)
StripRight(s) ==
    IF s # <<>> /\ s[Len(s)] = " " THEN StripRight(SubSeq(s, 1, Len(s) - 1)) ELSE s

RECURSIVE Decimal(_)
Decimal(s) ==
    IF s = <<>> THEN 0 ELSE 10 * Decimal(SubSeq(s, 1, Len(s) - 1)) + DigitVal(s[Len(s)])


\* The right-hand side of the statement  obj.<ppty> = <value>  that exec()
\* compiles (cli.py line 138): blanks around the expression are ignored, a
\* digit string is an integer literal, and anything else offered here (an
\* empty text, a letter that names nothing in scope, two tokens side by
\* side) raises SyntaxError or NameError.
Eval(value) ==
    LET t == StripRight(StripLeft(value))
    IN  IF t # <<>> /\ \A i \in 1..Len(t) : t[i] \in DigitChars
        THEN [ok |-> TRUE, val |-> Decimal(t)]
        ELSE [ok |-> FALSE, val |-> 0]

(* ----------------------- what the host supplies ------------------------ *)

tDT   == <<"d", "t">>
tDTP  == <<"d", "t", "-", "P">>
tG    == <<"g">>
tS    == <<"s">>
tX    == <<"x">>
tQ    == <<"q">>
tQQ   == <<"Q">>
tQUIT == <<"q", "u", "i", "t">>

nP  == <<"P">>
nP2 == <<"P", "2">>
nT  == <<"T">>

Ppties == {"interval", "averaging"}

SignalIds == {"internal", "e_stop", "e_graph", "e_save"}

\* objects: names in the order of the dict; one name may be a prefix of another
ObjectOpts == { <<nP, nT>>, <<nP, nP2>>, <<nP2, nP>>, <<>> }

Ppty(name, commands) == [name |-> name, commands |-> commands]

Evt(name, event, commands) == [name |-> name, event |-> event, commands |-> commands]

\* properties and events dicts (items in insertion order).  Nothing in the
\* constructor rejects a token listed twice, so such dicts are among them.
HostSetups ==
    LET one     == << Ppty("interval", <<tDT>>) >>
        hyphen  == << Ppty("interval", <<tDT>>), Ppty("averaging", <<tDTP>>) >>
        hyphen2 == << Ppty("averaging", <<tDTP>>), Ppty("interval", <<tDT>>) >>
        clash   == << Ppty("interval", <<tDT, tQ>>), Ppty("averaging", <<tG, tDT>>) >>
        graph   == Evt("graph", "e_graph", <<tG>>)
        stop    == Evt("stop", "e_stop", <<tX>>)
        stopg   == Evt("stop", "e_stop", <<tX, tG>>)
        save    == Evt("save", "e_save", <<tG, tS>>)
    IN  { [properties |-> one,     events |-> <<>>],
          [properties |-> one,     events |-> <<graph>>],
          [properties |-> one,     events |-> <<graph, stop>>],
          [properties |-> one,     events |-> <<graph, stopg>>],
          [properties |-> one,     events |-> <<stop, graph, save>>],
          [properties |-> hyphen,  events |-> <<>>],
          [properties |-> hyphen2, events |-> <<>>],
          [properties |-> clash,   events |-> <<graph>>],
          [properties |-> clash,   events |-> <<graph, stopg>>] }

\* the value texts offered: 9, and the runs of 5 of up to MaxDigits digits
ValTexts == { <<"9">> } \cup UNION { [1..k -> {"5"}] : k \in 1..MaxDigits }

\* stray characters
Junk == UNION { [1..k -> {"z"}] : k \in 0..MaxJunk }

\* the lines the operator may type
Lines ==
    LET toks   == {tDT, tDTP, tG, tS, tX, tQ, tQQ, tQUIT}
        ptoks  == {tDT, tDTP, tG, tQ}
        names  == {nP, nP2, nT}
        vals   == ValTexts \cup {<<"z">>, <<>>}
    IN  toks
        \cup { t \o SP \o v : t \in ptoks, v \in vals }
        \cup { t \o HY \o n \o j \o SP \o v :
                 t \in {tDT}, n \in names, j \in Junk, v \in ValTexts \cup {<<"z">>} }
        \cup { tDT \o HY \o n \o v : n \in names, v \in {<<>>, <<"5">>} }
        \cup { tG \o HY \o nP \o SP \o <<"5">>, <<>>, <<"z", "z">> }

HasAll == [p \in Ppties |-> <<1>>]
HasNone == [p \in Ppties |-> <<>>]

Init ==
    /\ objects \in ObjectOpts
    /\ \E h \in HostSetups :
         /\ properties = h.properties
         /\ events = h.events
         /\ sig \in { s \in [SignalIds -> BOOLEAN] :
                        \A e \in SignalIds :
                          s[e] => /\ e = "e_stop"
                                  /\ \E i \in 1..Len(h.events) : h.events[i].event = e }
    /\ attrs \in [1..Len(objects) -> {HasAll, HasNone}]
    /\ stop_event = "none"
    /\ stop_commands = <<>>
    /\ event_commands = <<>>
    /\ property_commands = <<>>
    /\ pc = "new"
    /\ command = <<>>
    /\ out = <<>>
    /\ hookLog = <<>>
    /\ hostAt = "none"

(* ------------------------------- dicts --------------------------------- *)

\* a dict {command: name} as the sequence of its items in insertion order
DictHas(d, k) == \E i \in 1..Len(d) : d[i].cmd = k

DictGet(d, k) == d[CHOOSE i \in 1..Len(d) : d[i].cmd = k].name

\* d[k] = v: a new key goes last, a key already there keeps its place
DictSet(d, k, v) ==
    IF DictHas(d, k)
    THEN [i \in 1..Len(d) |-> IF d[i].cmd = k THEN [cmd |-> k, name |-> v] ELSE d[i]]
    ELSE Append(d, [cmd |-> k, name |-> v])

RECURSIVE AddCommands(_, _, _)
AddCommands(commands, name, cmds) ==
    IF cmds = <<>> THEN commands
    ELSE AddCommands(DictSet(commands, Head(cmds), name), name, Tail(cmds))

RECURSIVE FillCommands(_, _)
FillCommands(commands, input_data) ==
    IF input_data = <<>> THEN commands
    ELSE FillCommands(
           AddCommands(commands, Head(input_data).name, Head(input_data).commands),
           Tail(input_data))

get_commands(input_data) == FillCommands(<<>>, input_data)

(* ---------------------------- construction ----------------------------- *)

Msg(kind, obj, ppty, val) == [kind |-> kind, obj |-> obj, ppty |-> ppty, val |-> val]

HasStop(evs) == \E i \in 1..Len(evs) : evs[i].name = "stop"

StopDict(evs) == evs[CHOOSE i \in 1..Len(evs) : evs[i].name = "stop"]

\* events.pop('stop'): the dict without that item
PopStop(evs) == SelectSeq(evs, LAMBDA e : e.name # "stop")

\* a fault to check against: the capital is left out
DefaultStopCommandsLower == <<tQ, tQUIT>>

DefaultStopCommands == <<tQ, tQQ, tQUIT>>

Construct ==
    /\ pc = "new"
    /\ IF HasStop(events)
       THEN /\ stop_event' = StopDict(events).event
            /\ stop_commands' = StopDict(events).commands
            /\ sig' = sig
            /\ out' = <<>>
       ELSE /\ stop_event' = "internal"
            /\ stop_commands' = DefaultStopCommands
            /\ sig' = [sig EXCEPT !["internal"] = FALSE]
            /\ out' = << Msg("nostop", <<>>, "", <<>>) >>
    /\ events' = PopStop(events)
    /\ event_commands' = get_commands(events')
    /\ property_commands' = get_commands(properties)
    /\ pc' = IF objects = <<>> THEN "failed" ELSE "test"
    /\ UNCHANGED <<objects, properties, attrs, command, hookLog, hostAt>>

(* ------------------------- property accessors -------------------------- *)

\* a fault to check against: the assignment is done before the object's
\* refusal is noticed, so a refused object has the value all the same
set_property_assigns_first(a, ppty_cmd, i, value, refused) ==
    LET ppty == DictGet(property_commands, ppty_cmd)
        v    == Eval(value)
    IN  [attrs |-> IF v.ok THEN [a EXCEPT ![i][ppty] = <<v.val>>] ELSE a,
         msg   |-> IF v.ok /\ ~refused
                   THEN Msg("new", objects[i], ppty, value)
                   ELSE Msg("invalid", <<>>, ppty, value)]

\* _set_property(ppty_cmd, object_name, value) on the attribute table a, for
\* the object at position i.  The exec'd assignment raises when the value
\* text does not evaluate, or when the object refuses the assignment (a
\* setter that validates, or a missing parent attribute; `refused` is the
\* object's answer, and a refusing object keeps its value); every Exception
\* is caught and reported, and nothing is raised to the caller.
set_property(a, ppty_cmd, i, value, refused) ==
    LET ppty == DictGet(property_commands, ppty_cmd)
        v    == Eval(value)
    IN  IF v.ok /\ ~refused
        THEN [attrs |-> [a EXCEPT ![i][ppty] = <<v.val>>],
              msg   |-> Msg("new", objects[i], ppty, value)]
        ELSE [attrs |-> a,
              msg   |-> Msg("invalid", <<>>, ppty, value)]

\* _get_property(ppty_cmd, object_name): no try around the exec'd read
get_property(ppty_cmd, i) ==
    LET ppty == DictGet(property_commands, ppty_cmd)
    IN  IF attrs[i][ppty] = <<>>
        THEN [raised |-> TRUE, value |-> 0]
        ELSE [raised |-> FALSE, value |-> attrs[i][ppty][1]]

\* _print_properties(ppty_cmd): the objects are read in order and the lines
\* are printed together after the last read, so a read that raises leaves
\* nothing printed and the exception leaves the method.
print_properties(ppty_cmd) ==
    LET ppty == DictGet(property_commands, ppty_cmd)
        n    == Len(objects)
    IN  IF \E i \in 1..n : get_property(ppty_cmd, i).raised
        THEN [raised |-> TRUE, msgs |-> <<>>]
        ELSE [raised |-> FALSE,
              msgs   |-> << Msg("header", <<>>, ppty, <<>>) >> \o
                         [i \in 1..n |->
                            [kind |-> "value", obj |-> objects[i], ppty |-> ppty,
                             val |-> get_property(ppty_cmd, i).value]]]

\* a fault to check against: the bulk set gives up at the first object that
\* fails
RECURSIVE set_all_until_failure(_, _, _, _, _)
set_all_until_failure(a, ppty_cmd, i, value, refusing) ==
    IF i > Len(objects) THEN [attrs |-> a, msgs |-> <<>>]
    ELSE LET v    == Eval(value)
             ok   == v.ok /\ i \notin refusing
             ppty == DictGet(property_commands, ppty_cmd)
             rest == set_all_until_failure([a EXCEPT ![i][ppty] = <<v.val>>],
                                           ppty_cmd, i + 1, value, refusing)
         IN  IF ok
             THEN [attrs |-> rest.attrs,
                   msgs  |-> << Msg("new", objects[i], ppty, value) >> \o rest.msgs]
             ELSE [attrs |-> a, msgs |-> << Msg("invalid", <<>>, ppty, value) >>]

\* the loop  for object_name in self.objects: self._set_property(...)  of the
\* bulk set, from the object at position i on; refusing is the set of
\* positions whose object refuses this assignment
RECURSIVE set_all(_, _, _, _, _)
set_all(a, ppty_cmd, i, value, refusing) ==
    IF i > Len(objects) THEN [attrs |-> a, msgs |-> <<>>]
    ELSE LET one  == set_property(a, ppty_cmd, i, value, i \in refusing)
             rest == set_all(one.attrs, ppty_cmd, i + 1, value, refusing)
         IN  [attrs |-> rest.attrs, msgs |-> <<one.msg>> \o rest.msgs]

(* ------------------------------ the scan ------------------------------- *)

\* the inner loop of the targeted form: the first object, from position k
\* on, whose specific command  ppty_cmd-object_name  starts the command
\* (0 when none does)
RECURSIVE find_object(_, _, _)
find_object(cmd, ppty_cmd, k) ==
    IF k > Len(objects) THEN 0
    ELSE LET specific_cmd == ppty_cmd \o HY \o objects[k]
             nspec        == Len(specific_cmd)
         IN  IF Prefix(cmd, nspec) = specific_cmd THEN k
             ELSE find_object(cmd, ppty_cmd, k + 1)

None == [kind |-> "unknown", ppty_cmd |-> <<>>, obj |-> 0, value |-> <<>>]

\* the loop  for ppty_cmd in self.property_commands  with its three forms
\* and its breaks, from the key at position i on; the for's else clause is
\* the "unknown" result
RECURSIVE scan(_, _)
scan(cmd, i) ==
    IF i > Len(property_commands) THEN None
    ELSE LET ppty_cmd == property_commands[i].cmd
             nlett    == Len(ppty_cmd)
             k        == find_object(cmd, ppty_cmd, 1)
         IN  IF cmd = ppty_cmd
             THEN [kind |-> "inquire", ppty_cmd |-> ppty_cmd, obj |-> 0, value |-> <<>>]
             ELSE IF Prefix(cmd, nlett + 1) = ppty_cmd \o SP
             THEN [kind |-> "bulk", ppty_cmd |-> ppty_cmd, obj |-> 0,
                   value |-> Suffix(cmd, nlett + 1)]
             ELSE IF k # 0
             THEN [kind |-> "target", ppty_cmd |-> ppty_cmd, obj |-> k,
                   value |-> Suffix(cmd, Len(ppty_cmd \o HY \o objects[k]) + 1)]
             ELSE scan(cmd, i + 1)

\* a fault to check against: the property scan is tried before the stop and
\* event checks
branch_scan_first(cmd) ==
    IF scan(cmd, 1).kind # "unknown" THEN scan(cmd, 1).kind
    ELSE IF cmd \in Range(stop_commands) THEN "stop"
    ELSE IF DictHas(event_commands, cmd) THEN "event"
    ELSE "unknown"

\* a fault to check against: the stop signal is looked at again when the
\* line has been read, and a line read after the signal was set is dropped
branch_unless_stopped(cmd) ==
    IF sig[stop_event] THEN "unknown"
    ELSE IF cmd \in Range(stop_commands) THEN "stop"
    ELSE IF DictHas(event_commands, cmd) THEN "event"
    ELSE scan(cmd, 1).kind

\* the if / elif / else of run(): which branch takes the command
branch(cmd) ==
    IF cmd \in Range(stop_commands) THEN "stop"
    ELSE IF DictHas(event_commands, cmd) THEN "event"
    ELSE scan(cmd, 1).kind

(* ------------------------------- run() --------------------------------- *)

\* a fault to check against: the loop test does not look at the stop signal
LoopTestGoesOn ==
    /\ pc = "test"
    /\ pc' = "input"
    /\ command' = <<>>
    /\ out' = <<>>
    /\ UNCHANGED <<objects, properties, events, sig, attrs, stop_event,
                   stop_commands, event_commands, property_commands, hookLog,
                   hostAt>>

\* while not self.stop_event.is_set().  When the loop goes on, input() is
\* called: `command` is about to be overwritten and the lines of the last
\* dispatch are above the new prompt, so both are cleared here.
LoopTest ==
    /\ pc = "test"
    /\ IF sig[stop_event]
       THEN /\ pc' = "done"
            /\ UNCHANGED <<command, out>>
       ELSE /\ pc' = "input"
            /\ command' = <<>>
            /\ out' = <<>>
    /\ UNCHANGED <<objects, properties, events, sig, attrs, stop_event,
                   stop_commands, event_commands, property_commands, hookLog,
                   hostAt>>

HookOutcomes == {"absent", "returns", "raises"}

\* positions of the objects whose on_stop() is reached: all of them, or those
\* up to the first whose hook raises something other than AttributeError
Reached(hk) ==
    {i \in 1..Len(objects) : \A j \in 1..(i - 1) : hk[j] # "raises"}

\* command in self.stop_commands.  hk[i] is what obj.on_stop() does for the
\* object at position i: the object has no such method (AttributeError,
\* passed over), the method returns, or it raises another exception, which
\* nothing in run() catches.
Stop(line) ==
    /\ pc = "input"
    /\ branch(line) = "stop"
    /\ \E hk \in [1..Len(objects) -> HookOutcomes] :
         LET n == Cardinality(Reached(hk))
         IN  /\ hookLog' = hookLog \o
                             [i \in 1..n |-> [obj |-> i, outcome |-> hk[i]]]
             /\ IF \E i \in 1..Len(objects) : hk[i] = "raises"
                THEN /\ sig' = sig
                     /\ pc' = "crashed"
                ELSE /\ sig' = [sig EXCEPT ![stop_event] = TRUE]
                     /\ pc' = "test"
    /\ command' = line
    /\ out' = << Msg("stopping", <<>>, "", <<>>) >>
    /\ UNCHANGED <<objects, properties, events, attrs, stop_event,
                   stop_commands, event_commands, property_commands, hostAt>>

EventOf(event_name) ==
    events[CHOOSE i \in 1..Len(events) : events[i].name = event_name].event

\* a fault to check against: the event branch toggles the signal
TriggerEventToggles(line) ==
    /\ pc = "input"
    /\ branch(line) = "event"
    /\ LET event_name == DictGet(event_commands, line)
       IN  /\ sig' = [sig EXCEPT ![EventOf(event_name)] = ~sig[EventOf(event_name)]]
           /\ out' = << Msg("event", <<>>, event_name, <<>>) >>
    /\ command' = line
    /\ pc' = "test"
    /\ UNCHANGED <<objects, properties, events, attrs, stop_event,
                   stop_commands, event_commands, property_commands, hookLog,
                   hostAt>>

\* command in self.event_commands
TriggerEvent(line) ==
    /\ pc = "input"
    /\ branch(line) = "event"
    /\ LET event_name == DictGet(event_commands, line)
       IN  /\ sig' = [sig EXCEPT ![EventOf(event_name)] = TRUE]
           /\ out' = << Msg("event", <<>>, event_name, <<>>) >>
    /\ command' = line
    /\ pc' = "test"
    /\ UNCHANGED <<objects, properties, events, attrs, stop_event,
                   stop_commands, event_commands, property_commands, hookLog,
                   hostAt>>

\* command == ppty_cmd
Inquire(line) ==
    /\ pc = "input"
    /\ branch(line) = "inquire"
    /\ LET r == print_properties(scan(line, 1).ppty_cmd)
       IN  /\ out' = r.msgs
           /\ pc' = IF r.raised THEN "crashed" ELSE "test"
    /\ command' = line
    /\ UNCHANGED <<objects, properties, events, sig, attrs, stop_event,
                   stop_commands, event_commands, property_commands, hookLog,
                   hostAt>>

\* command[:nlett + 1] == ppty_cmd + ' '
BulkSet(line) ==
    /\ pc = "input"
    /\ branch(line) = "bulk"
    /\ \E refusing \in SUBSET (1..Len(objects)) :
         LET m == scan(line, 1)
             r == set_all(attrs, m.ppty_cmd, 1, m.value, refusing)
         IN  /\ attrs' = r.attrs
             /\ out' = r.msgs
    /\ command' = line
    /\ pc' = "test"
    /\ UNCHANGED <<objects, properties, events, sig, stop_event,
                   stop_commands, event_commands, property_commands, hookLog,
                   hostAt>>

\* command[:nspec] == specific_cmd
TargetedSet(line) ==
    /\ pc = "input"
    /\ branch(line) = "target"
    /\ \E refused \in BOOLEAN :
         LET m == scan(line, 1)
             r == set_property(attrs, m.ppty_cmd, m.obj, m.value, refused)
         IN  /\ attrs' = r.attrs
             /\ out' = << r.msg >>
    /\ command' = line
    /\ pc' = "test"
    /\ UNCHANGED <<objects, properties, events, sig, stop_event,
                   stop_commands, event_commands, property_commands, hookLog,
                   hostAt>>

\* the else of the for loop: print('Unknown Command. ')
Unknown(line) ==
    /\ pc = "input"
    /\ branch(line) = "unknown"
    /\ out' = << Msg("unknown", <<>>, "", <<>>) >>
    /\ command' = line
    /\ pc' = "test"
    /\ UNCHANGED <<objects, properties, events, sig, attrs, stop_event,
                   stop_commands, event_commands, property_commands, hookLog,
                   hostAt>>

Next ==
    \/ Construct
    \/ LoopTest
    \/ \E line \in Lines : Stop(line)
    \/ \E line \in Lines : TriggerEvent(line)
    \/ \E line \in Lines : Inquire(line)
    \/ \E line \in Lines : BulkSet(line)
    \/ \E line \in Lines : TargetedSet(line)
    \/ \E line \in Lines : Unknown(line)

Spec == Init /\ [][Next]_vars

(* --------------------------- the host's thread -------------------------- *)

\* The stop Event is an object the host shares with the command line
\* interface (the 'stop' item of the events dict, or self.stop_event): a
\* thread of the host may call set() on it at any moment while run() is at
\* the loop test or blocked in input().  hostAt records where run() was.
HostSetsStop ==
    /\ pc \in {"test", "input"}
    /\ ~sig[stop_event]
    /\ sig' = [sig EXCEPT ![stop_event] = TRUE]
    /\ hostAt' = pc
    /\ UNCHANGED <<objects, properties, events, attrs, stop_event,
                   stop_commands, event_commands, property_commands,
                   pc, command, out, hookLog>>

NextHost ==
    \/ Next
    \/ HostSetsStop

\* The host's thread is looked at with one property ('interval', token
\* 'dt') and every choice of events and objects: what the stop signal does
\* to the loop does not depend on how many properties there are.
InitHost ==
    /\ Init
    /\ Len(properties) = 1

SpecHost == InitHost /\ [][NextHost]_vars

(* =============================== claims ================================ *)

\* a step of run() that reads one line and dispatches it; command' is the line
Dispatch == pc = "input" /\ pc' # "input"

StartsWith(s, p) == Len(p) <= Len(s) /\ SubSeq(s, 1, Len(p)) = p

Positions == 1..Len(objects)

TokenAt(i) == property_commands[i].cmd

PptyAt(i) == property_commands[i].name

\* the dispatch printed one set outcome per object, in the order of the
\* objects, for the property of the token at position i and the value text
\* v, and each object either took the value of v or was left as it was
SetOutcomePerObject(i, v) ==
    /\ Len(out') = Len(objects)
    /\ \A k \in Positions :
         /\ out'[k].ppty = PptyAt(i)
         /\ out'[k].val = v
         /\ \/ /\ out'[k].kind = "new"
               /\ out'[k].obj = objects[k]
               /\ Eval(v).ok
               /\ attrs'[k] = [attrs[k] EXCEPT ![PptyAt(i)] = <<Eval(v).val>>]
            \/ /\ out'[k].kind = "invalid"
               /\ attrs'[k] = attrs[k]

\* a property token scanned before the one at position i takes the line:
\* it equals the line, or it starts the line followed by a space, or its
\* token-hyphen-object form starts the line
TakenEarlier(line, i) ==
    \E j \in 1..(i - 1) :
      \/ line = TokenAt(j)
      \/ StartsWith(line, TokenAt(j) \o SP)
      \/ \E k \in Positions : StartsWith(line, TokenAt(j) \o HY \o objects[k])

\* C1 as stated: whenever the line "t v" (property token t, one space, value
\* text v) is dispatched, v is applied to t's property on every managed
\* object with exactly one set outcome per object in the supplied order,
\* whatever the other property tokens and the object names are.
C1_BulkSetEveryConfiguration ==
    [][ Dispatch =>
          \A i \in 1..Len(property_commands) :
            StartsWith(command', TokenAt(i) \o SP) =>
              SetOutcomePerObject(i, Suffix(command', Len(TokenAt(i)) + 1)) ]_vars

\* C1 as amended: the same, for the lines "t v" that are not themselves a
\* stop or event token and that no property token scanned before t takes.
C1_BulkSetFirstMatch ==
    [][ Dispatch =>
          \A i \in 1..Len(property_commands) :
            ( /\ StartsWith(command', TokenAt(i) \o SP)
              /\ command' \notin Range(stop_commands)
              /\ ~DictHas(event_commands, command')
              /\ ~TakenEarlier(command', i) ) =>
              SetOutcomePerObject(i, Suffix(command', Len(TokenAt(i)) + 1)) ]_vars

\* C1 witness: with the tokens "dt-P" and "dt" scanned in that order and an
\* object P, the line "dt-P 5" has set averaging on both objects.
C1_Witness ==
    /\ pc = "test"
    /\ command = <<"d", "t", "-", "P", " ", "5">>
    /\ objects = << <<"P">>, <<"T">> >>
    /\ Len(out) = 2
    /\ out[1].kind = "new" /\ out[1].ppty = "averaging"
    /\ out[2].kind = "new" /\ out[2].ppty = "averaging"
    /\ attrs[1]["averaging"] = <<5>> /\ attrs[2]["averaging"] = <<5>>

\* C2 as stated, for the property token t that is scanned first (so that no
\* other token takes the line before it): whenever the line t-n v is
\* dispatched, n the name of a managed object, the attributes of every
\* object other than n are the same after the dispatch as before it.
C2_TargetedSetOnlyNamedObject ==
    [][ Dispatch =>
          \A k \in Positions :
            StartsWith(command', TokenAt(1) \o HY \o objects[k] \o SP) =>
              \A m \in Positions \ {k} : attrs'[m] = attrs[m] ]_vars

\* C3: in a bulk set every object is attempted and the loop goes on; an
\* object reported as accepted holds the new value, and an object whose
\* conversion or assignment failed is reported invalid and keeps its value,
\* whatever happened to the objects before it.
C3_BulkSetIsolation ==
    [][ (Dispatch /\ branch(command') = "bulk") =>
          LET m == scan(command', 1)
              p == DictGet(property_commands, m.ppty_cmd)
          IN  /\ pc' = "test"
              /\ Len(out') = Len(objects)
              /\ \A k \in Positions :
                   \/ /\ out'[k].kind = "new"
                      /\ out'[k].obj = objects[k]
                      /\ attrs'[k][p] = <<Eval(m.value).val>>
                   \/ /\ out'[k].kind = "invalid"
                      /\ out'[k].val = m.value
                      /\ attrs'[k] = attrs[k] ]_vars

\* C3 witness: "dt 5" failed for the first object, was then accepted by the
\* second, and the loop is back at its test.
C3_Witness ==
    /\ pc = "test"
    /\ command = <<"d", "t", " ", "5">>
    /\ Len(out) = 2
    /\ out[1].kind = "invalid" /\ attrs[1]["interval"] # <<5>>
    /\ out[2].kind = "new" /\ attrs[2]["interval"] = <<5>>

\* number of times the on_stop() of the object at position k was entered
HookCalls(k) ==
    Cardinality({j \in 1..Len(hookLog) :
                   hookLog[j].obj = k /\ hookLog[j].outcome # "absent"})

\* C4 as stated: once a line equal to a stop token has been dispatched, the
\* stop signal is set and the loop exits by its test (it is Stopped), and no
\* object's stop hook has been entered more than once, whatever the hooks do.
C4_StopTokenStops ==
    (pc \in {"test", "done", "crashed"} /\ command \in Range(stop_commands)) =>
        /\ pc # "crashed"
        /\ sig[stop_event]
        /\ \A k \in Positions : HookCalls(k) <= 1

\* C5 as stated: the dispatch of a line that is not a stop token never ends
\* the loop: afterwards run() is at the loop test with the stop signal not
\* set, whatever read, conversion or assignment failed for an object.
C5_OnlyStopEndsLoop ==
    [][ (Dispatch /\ command' \notin Range(stop_commands)) =>
          (pc' = "test" /\ ~sig'[stop_event]) ]_vars

RECURSIVE Flatten(_)
Flatten(specs) ==
    IF specs = <<>> THEN <<>> ELSE Head(specs).commands \o Flatten(Tail(specs))

\* every token of the property specs, the event specs and the stop tokens
AllTokens == Flatten(properties) \o Flatten(events) \o stop_commands

\* C6 as stated: in every constructed command line interface no token is
\* listed twice among the property specs, the event specs and the stop
\* tokens (construction fails otherwise), so each token has one identifier.
C6_TokensUnique ==
    pc \notin {"new", "failed"} =>
        \A a, b \in 1..Len(AllTokens) : a # b => AllTokens[a] # AllTokens[b]

\* C7 as stated: the dispatch of a line equal to a property token changes no
\* attribute of any managed object and sets no event or stop signal.
C7_InquireReadOnly ==
    [][ (Dispatch /\ \E i \in 1..Len(properties) :
                       command' \in Range(properties[i].commands)) =>
          (attrs' = attrs /\ sig' = sig) ]_vars

\* the dispatch took the event branch for the event called name
EventSet(name) ==
    /\ out' = << Msg("event", <<>>, name, <<>>) >>
    /\ sig'[EventOf(name)]

\* C8 as stated: a dispatched line sets an event's signal if and only if it
\* equals one of that event's tokens; and an event token followed by a space
\* and a non-empty text sets no event signal and goes to the property checks.
C8_EventsTakeNoValue ==
    [][ Dispatch =>
          /\ \A j \in 1..Len(events) :
               EventSet(events[j].name) <=> command' \in Range(events[j].commands)
          /\ \A j \in 1..Len(events) : \A e \in Range(events[j].commands) :
               (StartsWith(command', e \o SP) /\ Len(command') > Len(e) + 1) =>
                 /\ sig' = sig
                 /\ \A n \in 1..Len(out') :
                      out'[n].kind \in {"header", "value", "new", "invalid", "unknown"}
       ]_vars

\* C9: without a 'stop' item in the events, construction makes a signal of
\* its own, not set, with the stop tokens 'q', 'Q' and 'quit'; with one, the
\* host's signal and tokens are taken instead.  Neither changes afterwards.
\* A dispatched stop token ends the loop (the stop signal is set and the next
\* test exits, or a hook's exception leaves run()); no other line touches the
\* stop signal or a hook; and the loop test exits exactly when the stop
\* signal is set.
C9_DefaultStop ==
    /\ [][ (pc = "new" /\ pc' # "new") =>
             IF \E j \in 1..Len(events) : events[j].name = "stop"
             THEN \E j \in 1..Len(events) :
                    /\ events[j].name = "stop"
                    /\ stop_event' = events[j].event
                    /\ stop_commands' = events[j].commands
                    /\ sig' = sig
             ELSE /\ \A j \in 1..Len(events) : stop_event' # events[j].event
                  /\ ~sig'[stop_event']
                  /\ stop_commands' = << <<"q">>, <<"Q">>, <<"q", "u", "i", "t">> >>
         ]_vars
    /\ [][ pc # "new" =>
             (stop_event' = stop_event /\ stop_commands' = stop_commands) ]_vars
    /\ [][ (Dispatch /\ command' \in Range(stop_commands)) =>
             /\ out' = << Msg("stopping", <<>>, "", <<>>) >>
             /\ pc' = "crashed" \/ (pc' = "test" /\ sig'[stop_event]) ]_vars
    /\ [][ (Dispatch /\ command' \notin Range(stop_commands)) =>
             (sig'[stop_event] = sig[stop_event] /\ hookLog' = hookLog) ]_vars
    /\ [][ (pc = "test" /\ pc' # "test") =>
             pc' = (IF sig[stop_event] THEN "done" ELSE "input") ]_vars

\* C9 witness: with the stop signal made by the constructor, the line 'Q'
\* was dispatched and the loop has exited.
C9_Witness ==
    /\ pc = "done"
    /\ stop_event = "internal"
    /\ sig["internal"]
    /\ command = <<"Q">>

Kinds(o) == {o[n].kind : n \in 1..Len(o)}

IsStopToken(line) == line \in Range(stop_commands)

IsEventToken(line) == \E j \in 1..Len(events) : line \in Range(events[j].commands)

\* C10: the stop check comes first, then the event check, then the property
\* checks, and one branch runs per line.  A stop token only runs the stop
\* branch: no event signal and no attribute changes, nothing is read or set.
\* An event token that is no stop token only sets a signal of an event that
\* lists it: no hook, no stop signal, no attribute, nothing read or set, also
\* when it is a property token.  Any other line leaves the signals and the
\* hooks alone.
C10_Precedence ==
    [][ Dispatch =>
          /\ IsStopToken(command') =>
               /\ out' = << Msg("stopping", <<>>, "", <<>>) >>
               /\ attrs' = attrs
               /\ \A e \in SignalIds \ {stop_event} : sig'[e] = sig[e]
          /\ (~IsStopToken(command') /\ IsEventToken(command')) =>
               /\ Kinds(out') = {"event"}
               /\ Len(out') = 1
               /\ attrs' = attrs
               /\ hookLog' = hookLog
               /\ \A e \in SignalIds :
                    sig'[e] # sig[e] =>
                      \E j \in 1..Len(events) :
                        /\ events[j].event = e
                        /\ command' \in Range(events[j].commands)
               /\ \E e \in SignalIds : sig'[e] /\ e # stop_event
          /\ (~IsStopToken(command') /\ ~IsEventToken(command')) =>
               /\ sig' = sig
               /\ hookLog' = hookLog
               /\ \/ Kinds(out') \subseteq {"header", "value"}
                  \/ Kinds(out') \subseteq {"new", "invalid"}
                  \/ Kinds(out') = {"unknown"}
       ]_vars

\* C10 witness: 'g' is a token of the graph event and of a property, and its
\* dispatch has set the graph signal and printed the event notice alone.
C10_Witness ==
    /\ pc = "test"
    /\ command = <<"g">>
    /\ DictHas(property_commands, <<"g">>)
    /\ ~IsStopToken(<<"g">>)
    /\ out = << Msg("event", <<>>, "graph", <<>>) >>
    /\ sig["e_graph"]

\* C11 as stated, for the property token t that is scanned first: a
\* dispatched line that starts with a specific command t-n, n the name of a
\* managed object, without a space right after any such specific command
\* that starts it, is no targeted set and changes no attribute of any object.
C11_TargetedSetNeedsSpace ==
    [][ ( /\ Dispatch
          /\ ~IsStopToken(command') /\ ~IsEventToken(command')
          /\ \E k \in Positions :
               StartsWith(command', TokenAt(1) \o HY \o objects[k])
          /\ \A k \in Positions :
               ~StartsWith(command', TokenAt(1) \o HY \o objects[k] \o SP) ) =>
          attrs' = attrs ]_vars

\* the line has one of the three forms of the property token at position i:
\* the token alone, the token and a space, or a specific command of the
\* token (token, hyphen, object name) and a space
HasForm(line, i) ==
    \/ line = TokenAt(i)
    \/ StartsWith(line, TokenAt(i) \o SP)
    \/ \E k \in Positions : StartsWith(line, TokenAt(i) \o HY \o objects[k] \o SP)

\* the dispatch did what the form of the line for the token at position i
\* asks, for that token's property, and nothing for any other property
ActedFor(line, i) ==
    /\ \A n \in 1..Len(out') : out'[n].ppty = PptyAt(i)
    /\ \A k \in Positions : \A p \in Ppties \ {PptyAt(i)} :
         attrs'[k][p] = attrs[k][p]
    /\ IF line = TokenAt(i)
       THEN Kinds(out') \subseteq {"header", "value"} /\ attrs' = attrs
       ELSE Kinds(out') \subseteq {"new", "invalid"} /\ out' # <<>>

\* C12 as stated: of a dispatched line that is no stop or event token, the
\* first property token in the supplied order of which the line has a form
\* (inquire, bulk set, targeted set) is the one that acts, and no other.
C12_FirstMatchWins ==
    [][ (Dispatch /\ ~IsStopToken(command') /\ ~IsEventToken(command')) =>
          \A i \in 1..Len(property_commands) :
            ( /\ HasForm(command', i)
              /\ \A j \in 1..(i - 1) : ~HasForm(command', j) ) =>
              ActedFor(command', i) ]_vars

\* C13 as stated: when the property scan takes a dispatched line as an
\* inquire, every object whose property can be read has its value reported,
\* whatever the read of another object did, and the loop goes on.
C13_InquireReadIsolation ==
    [][ (Dispatch /\ branch(command') = "inquire") =>
          LET p == DictGet(property_commands, scan(command', 1).ppty_cmd)
          IN  /\ pc' = "test"
              /\ \A k \in Positions :
                   attrs[k][p] # <<>> =>
                     \E n \in 1..Len(out') :
                       /\ out'[n].kind = "value"
                       /\ out'[n].obj = objects[k]
                       /\ out'[n].ppty = p
                       /\ out'[n].val = attrs[k][p][1] ]_vars

\* the on_stop() of the object at position k was attempted (called, or found
\* missing and passed over)
HookAttempted(k) == \E j \in 1..Len(hookLog) : hookLog[j].obj = k

\* C14 as stated: after the dispatch of a stop token the stop signal is set,
\* whatever the hooks do; and whenever it is set after such a dispatch, the
\* stop hook of every managed object has been attempted.
C14_StopOrdering ==
    (pc \in {"test", "done", "crashed"} /\ IsStopToken(command)) =>
        /\ sig[stop_event]
        /\ \A k \in Positions : HookAttempted(k)

\* C17 as stated: a dispatched line that is no stop token, no event token and
\* has none of the three forms of any property token (the empty line is one)
\* is reported as an unknown command, changes no attribute of any object and
\* sets no signal.
C17_UnmatchedChangesNothing ==
    [][ ( /\ Dispatch
          /\ ~IsStopToken(command') /\ ~IsEventToken(command')
          /\ \A i \in 1..Len(property_commands) : ~HasForm(command', i) ) =>
          /\ out' = << Msg("unknown", <<>>, "", <<>>) >>
          /\ attrs' = attrs
          /\ sig' = sig ]_vars

\* C15: when the loop test finds the stop signal set, run() returns, and
\* after that nothing is read, dispatched or changed; and after the dispatch
\* of a stop token no line is read again, whether the signal was set or a
\* hook's exception left run().
C15_StoppedIsTerminal ==
    /\ [][ (pc = "test" /\ sig[stop_event]) => pc' = "done" ]_vars
    /\ [][ pc = "done" => UNCHANGED vars ]_vars
    /\ [][ (pc \in {"test", "done", "crashed"} /\ IsStopToken(command)) =>
             pc' # "input" ]_vars

\* C15 witness: the host's stop token 'x' was dispatched, the signal of the
\* host's stop event was set by it, and the loop has exited.
C15_Witness ==
    /\ pc = "done"
    /\ command = <<"x">>
    /\ stop_event = "e_stop"
    /\ sig["e_stop"]
    /\ hostAt = "none"
    /\ hookLog # <<>>

\* C16: the stop signal is looked at by the loop test alone.  While run() is
\* blocked in input() it does not return, whatever the signal is.  A line
\* read while the signal is already set is dispatched as any other: an event
\* token sets its event's signal, a bulk set for the first property token
\* gives every object its outcome, a targeted set for it and the first object
\* gives that object its outcome, a stop token runs the hooks.  The loop test
\* that follows then exits.
C16_StopTestedAtTopOnly ==
    /\ [][ pc = "input" => pc' \in {"input", "test", "crashed"} ]_vars
    /\ [][ (Dispatch /\ sig[stop_event]) =>
             /\ IsStopToken(command') =>
                  /\ out' = << Msg("stopping", <<>>, "", <<>>) >>
                  /\ Len(hookLog') > Len(hookLog)
             /\ (~IsStopToken(command') /\ IsEventToken(command')) =>
                  \E j \in 1..Len(events) :
                    /\ command' \in Range(events[j].commands)
                    /\ sig'[events[j].event]
                    /\ out' = << Msg("event", <<>>, events[j].name, <<>>) >>
             /\ ( /\ ~IsStopToken(command') /\ ~IsEventToken(command')
                  /\ StartsWith(command', TokenAt(1) \o SP) ) =>
                  SetOutcomePerObject(1, Suffix(command', Len(TokenAt(1)) + 1))
             /\ ( /\ ~IsStopToken(command') /\ ~IsEventToken(command')
                  /\ StartsWith(command', TokenAt(1) \o HY \o objects[1] \o SP) ) =>
                  LET v == Suffix(command', Len(TokenAt(1) \o HY \o objects[1]) + 1)
                  IN  /\ Len(out') = 1
                      /\ out'[1].ppty = PptyAt(1)
                      /\ out'[1].val = v
                      /\ \/ /\ out'[1].kind = "new"
                            /\ out'[1].obj = objects[1]
                            /\ attrs' = [attrs EXCEPT ![1][PptyAt(1)] = <<Eval(v).val>>]
                         \/ /\ out'[1].kind = "invalid"
                            /\ attrs' = attrs
             /\ pc' \in {"test", "crashed"} ]_vars
    /\ [][ (pc = "test" /\ sig[stop_event] /\ hostAt = "input") =>
             (pc' = "done" /\ command' = command /\ attrs' = attrs) ]_vars

\* C16 witness: the host set the stop signal while run() was blocked in
\* input(); the line "dt 5" entered next has set interval on both objects,
\* and the loop has then exited.
C16_Witness ==
    /\ pc = "done"
    /\ hostAt = "input"
    /\ command = <<"d", "t", " ", "5">>
    /\ Len(out) = 2
    /\ out[1].kind = "new" /\ out[1].ppty = "interval"
    /\ out[2].kind = "new" /\ out[2].ppty = "interval"
    /\ attrs[1]["interval"] = <<5>> /\ attrs[2]["interval"] = <<5>>

\* C18: no step of the command line interface clears a signal; and the
\* dispatch of a stop token when the stop signal is already set, or of an
\* event token when the signal of every event that lists it is already set,
\* leaves all signals and all attributes as they were.
C18_SignalsMonotone ==
    /\ [][ \A e \in SignalIds : sig[e] => sig'[e] ]_vars
    /\ [][ (Dispatch /\ IsStopToken(command') /\ sig[stop_event]) =>
             (sig' = sig /\ attrs' = attrs) ]_vars
    /\ [][ ( /\ Dispatch
             /\ ~IsStopToken(command') /\ IsEventToken(command')
             /\ \A j \in 1..Len(events) :
                  command' \in Range(events[j].commands) => sig[events[j].event] ) =>
             (sig' = sig /\ attrs' = attrs) ]_vars

\* C18 witness: the host had set the stop signal while run() was blocked in
\* input(), the stop token 'q' was entered all the same and dispatched, and
\* the signal is still set.
C18_Witness ==
    /\ pc = "test"
    /\ hostAt = "input"
    /\ command = <<"q">>
    /\ out = << Msg("stopping", <<>>, "", <<>>) >>
    /\ hookLog # <<>>
    /\ sig[stop_event]

====
